---- MODULE Spec2Model ----
(***************************************************************************)
(* A model of src/code/mazes.py: Cell, Grid and the maze generation        *)
(* algorithms, one step per loop iteration of each algorithm, and the      *)
(* calls a user of the grid makes: link / unlink, the queries, the markups *)
(* and the text render, one step per call.                                 *)
(*                                                                         *)
(* A cell is the pair <<row, column>> (both 0-based, as in the code).      *)
(* The diagnostics counters iteration_count and loops_removed are only     *)
(* ever printed and grow without bound; they are not part of the state.    *)
(***************************************************************************)
EXTENDS Integers, Sequences, FiniteSets, TLC

\* Bounds of the model: the side of a grid and the number of its cells.
MaxDim == 3
MaxCells == 9
\* The same for the specification with link / unlink calls by the caller.
ApiMaxDim == 2
ApiMaxCells == 4
\* The largest value the caller sets in a markup.
MaxValue == 2
\* The number of cells the caller marks in the markup of a grid it renders.
MaxMarks == 1

VARIABLES
    num_rows,        \* Grid.num_rows
    num_columns,     \* Grid.num_columns
    links,           \* links[c]: the keys of Cell.links of cell c
    cell_visited,    \* the cells whose attribute cell_visited was assigned True
    visit,           \* the cells whose attribute visit is True
    alg,             \* the generation algorithm called ("none" on a new grid)
    pc,              \* the generation call: idle (not made), in a loop, returned, raised
    err,             \* the exception the last call raised, or "none"
    i,               \* loop variable i (row index)
    j,               \* loop variable j (column index)
    odds,            \* sidewinder's parameter, in percent
    tmplist,         \* sidewinder's run list
    start_cell,      \* aldous_broder's current cell
    cell_notvisited, \* aldous_broder's list of cells not yet visited
    cell_unused,     \* wilson's list of unvisited cells
    tmpgrids,        \* wilson's current path
    first_cell,      \* wilson's walk head
    rt,              \* history: the last unlink / link round trip of the caller
                     \* (stage 1: unlinked, 2: linked again, 3: the unlink raised)
    mk,              \* the caller's Markup object m: its marks and its default
    markup,          \* Grid.markup: "unset" until set_markup(m), then "m"
    ret              \* the last call of the caller: its name, arguments and result

vars == <<num_rows, num_columns, links, cell_visited, visit, alg, pc, err, i, j, odds,
          tmplist, start_cell, cell_notvisited, cell_unused, tmpgrids,
          first_cell, rt, mk, markup, ret>>

\* The state in the hands of the caller.
caller == <<mk, markup, ret>>

locals == <<i, j, odds, tmplist, start_cell, cell_notvisited, cell_unused,
            tmpgrids, first_cell>>

\* Python's None, for an absent neighbour.
None == <<>>

\* No unlink / link round trip is under way.
NoRoundTrip == [stage |-> 0, a |-> None, b |-> None, pre |-> <<>>]

\* Markup.__init__(grid, default=' '): the default of a plain Markup, a string;
\* every other value of the model is a number from 0 on.
Blank == -1

\* Nothing was called yet, or the last call returned None.
NoReturn == [call |-> "none", args |-> <<>>, value |-> None]

\* No call is in progress.
NoCall == pc \in {"idle", "returned", "raised"}

----------------------------------------------------------------------------
\* Grid and Cell

\* Grid.create_cells: the cells of a num_rows x num_columns grid.
Cells == {<<r, c>> : r \in 0..(num_rows - 1), c \in 0..(num_columns - 1)}

\* Grid.size
size == num_rows * num_columns

\* Grid.connect_cells: the four neighbour references of a cell.
north(c) == IF c[1] - 1 >= 0 THEN <<c[1] - 1, c[2]>> ELSE None
south(c) == IF c[1] + 1 < num_rows THEN <<c[1] + 1, c[2]>> ELSE None
west(c) == IF c[2] - 1 >= 0 THEN <<c[1], c[2] - 1>> ELSE None
east(c) == IF c[2] + 1 < num_columns THEN <<c[1], c[2] + 1>> ELSE None

\* Cell.neighbors: north, south, west, east, those that exist, in this order.
neighbors(c) ==
    LET opt(n) == IF n = None THEN <<>> ELSE <<n>>
    IN opt(north(c)) \o opt(south(c)) \o opt(west(c)) \o opt(east(c))

\* x in list
Range(s) == {s[k] : k \in DOMAIN s}

\* Grid.each_cell / the nested loops over grid.grid: the cells in row-major order.
each_cell ==
    [k \in 1..size |-> <<(k - 1) \div num_columns, (k - 1) % num_columns>>]

\* list.remove(x) for a list that holds x: the list without the first x.
remove(s, x) ==
    LET k == CHOOSE k \in DOMAIN s : s[k] = x /\ \A m \in 1..(k - 1) : s[m] # x
    IN [m \in 1..(Len(s) - 1) |-> IF m < k THEN s[m] ELSE s[m + 1]]


\* A slip in Cell.link: the reverse direction is not recorded.
link_oneway(L, a, b, bidirectional) == [L EXCEPT ![a] = @ \cup {b}]

\* Cell.link
link(L, a, b, bidirectional) ==
    LET L1 == [L EXCEPT ![a] = @ \cup {b}]
    IN IF bidirectional THEN [L1 EXCEPT ![b] = @ \cup {a}] ELSE L1

\* Cell.is_linked
is_linked(L, a, b) == b \in L[a]

\* Cell.link_count
link_count(L, a) == Cardinality(L[a])

----------------------------------------------------------------------------
\* The link graph (used to state the claims, not part of the program)

\* The undirected links, each counted once.
Edges(L) == UNION {{{a, b} : b \in L[a]} : a \in Cells} \ {{a} : a \in Cells}
SelfLinks(L) == {a \in Cells : a \in L[a]}

Symmetric(L) == \A a \in Cells : \A b \in L[a] : b \in Cells /\ a \in L[b]

BetweenNeighbours(L) == \A a \in Cells : L[a] \subseteq Range(neighbors(a))

RECURSIVE Reach(_, _)
Reach(L, S) ==
    LET T == S \cup UNION {L[a] : a \in S}
    IN IF T = S THEN S ELSE Reach(L, T)

Connected(L) == Reach(L, {<<0, 0>>}) = Cells

\* Strip the leaves again and again: a forest ends with no edge left.
RECURSIVE Forest(_)
Forest(E) ==
    LET deg(n) == Cardinality({e \in E : n \in e})
        leafEdges == {e \in E : \E n \in e : deg(n) = 1}
    IN IF E = {} THEN TRUE
       ELSE IF leafEdges = {} THEN FALSE
       ELSE Forest(E \ leafEdges)

Acyclic(L) == SelfLinks(L) = {} /\ Forest(Edges(L))

SpanningTree(L) ==
    /\ Symmetric(L)
    /\ BetweenNeighbours(L)
    /\ Cardinality(Edges(L)) = size - 1
    /\ Connected(L)
    /\ Acyclic(L)

----------------------------------------------------------------------------
\* The state after Grid(num_rows, num_columns): no links, nothing visited.

Fresh(r, c) ==
    /\ num_rows = r
    /\ num_columns = c
    /\ links = [x \in {<<a, b>> : a \in 0..(r - 1), b \in 0..(c - 1)} |-> {}]
    /\ cell_visited = {}
    /\ visit = {}
    /\ alg = "none"
    /\ pc = "idle"
    /\ err = "none"
    /\ i = 0
    /\ j = 0
    /\ odds = 0
    /\ tmplist = <<>>
    /\ start_cell = None
    /\ cell_notvisited = <<>>
    /\ cell_unused = <<>>
    /\ tmpgrids = <<>>
    /\ first_cell = None
    /\ rt = NoRoundTrip
    /\ mk = [marks |-> <<>>, default |-> Blank]
    /\ markup = "unset"
    /\ ret = NoReturn

Init ==
    \E r \in 1..MaxDim, c \in 1..MaxDim :
        /\ r * c <= MaxCells
        /\ Fresh(r, c)

\* A call raises: the exception reaches the caller.
Raise(e) ==
    /\ pc' = "raised"
    /\ err' = e

----------------------------------------------------------------------------
\* binary_tree

binary_tree_call ==
    /\ pc = "idle"
    /\ alg' = "binary_tree"
    /\ pc' = "bt_top"
    /\ err' = "none"
    /\ i' = 0
    /\ j' = 0
    /\ rt' = NoRoundTrip
    /\ ret' = NoReturn
    /\ UNCHANGED <<mk, markup>>
    /\ UNCHANGED <<num_rows, num_columns, visit, links, cell_visited, odds, tmplist,
                   start_cell, cell_notvisited, cell_unused, tmpgrids,
                   first_cell>>

\* for cell in grid.grid[0]: if cell != grid.grid[0][-1]: cell.link(cell.east)
binary_tree_top ==
    /\ pc = "bt_top"
    /\ LET cell == <<0, j>>
           last == (j + 1 = num_columns)
       IN /\ IF cell # <<0, num_columns - 1>>
             THEN IF east(cell) = None
                  THEN Raise("AssertionError") /\ UNCHANGED <<links, i, j>>
                  ELSE /\ links' = link(links, cell, east(cell), TRUE)
                       /\ j' = j + 1
                       /\ UNCHANGED <<pc, err, i>>
             ELSE /\ UNCHANGED <<links, err>>
                  /\ IF last
                     THEN IF num_rows > 1
                          THEN pc' = "bt_east" /\ i' = 1 /\ j' = j
                          ELSE pc' = "returned" /\ UNCHANGED <<i, j>>
                     ELSE j' = j + 1 /\ UNCHANGED <<pc, i>>
    /\ UNCHANGED <<num_rows, num_columns, visit, cell_visited, alg, odds, tmplist,
                   start_cell, cell_notvisited, cell_unused, tmpgrids,
                   first_cell, rt, caller>>

\* for i in range(1, len(grid.grid)): grid.grid[i][-1].link(grid.grid[i][-1].north)
binary_tree_east ==
    /\ pc = "bt_east"
    /\ LET cell == <<i, num_columns - 1>>
       IN IF north(cell) = None
          THEN Raise("AssertionError") /\ UNCHANGED <<links, i, j>>
          ELSE /\ links' = link(links, cell, north(cell), TRUE)
               /\ err' = err
               /\ IF i + 1 < num_rows
                  THEN i' = i + 1 /\ UNCHANGED <<pc, j>>
                  ELSE IF num_columns - 1 > 0
                       THEN pc' = "bt_inner" /\ i' = 1 /\ j' = 0
                       ELSE pc' = "returned" /\ UNCHANGED <<i, j>>
    /\ UNCHANGED <<num_rows, num_columns, visit, cell_visited, alg, odds, tmplist,
                   start_cell, cell_notvisited, cell_unused, tmpgrids,
                   first_cell, rt, caller>>

\* A slip in the choice list: west in the place of east.
binary_tree_choices_west(cell) == {north(cell), west(cell)}

\* random.choice([grid.grid[i][j].north, grid.grid[i][j].east])
binary_tree_choices(cell) == {north(cell), east(cell)}

\* for i ...: for j in range(len(grid.grid[0])-1): grid.grid[i][j].link(random.choice(...))
binary_tree_inner ==
    /\ pc = "bt_inner"
    /\ \E target \in binary_tree_choices(<<i, j>>) :
          IF target = None
          THEN Raise("AssertionError") /\ UNCHANGED <<links, i, j>>
          ELSE /\ links' = link(links, <<i, j>>, target, TRUE)
               /\ err' = err
               /\ IF j + 1 < num_columns - 1
                  THEN j' = j + 1 /\ UNCHANGED <<pc, i>>
                  ELSE IF i + 1 < num_rows
                       THEN i' = i + 1 /\ j' = 0 /\ pc' = pc
                       ELSE pc' = "returned" /\ UNCHANGED <<i, j>>
    /\ UNCHANGED <<num_rows, num_columns, visit, cell_visited, alg, odds, tmplist,
                   start_cell, cell_notvisited, cell_unused, tmpgrids,
                   first_cell, rt, caller>>

----------------------------------------------------------------------------
\* sidewinder

\* The values of odds tried (asserted: 0.0 <= odds < 1.0), in percent.
OddsChoices == {0, 50}
\* The values random.uniform(0, 1) is drawn from, in percent.
Draws == {0, 25, 50, 75}

sidewinder_call ==
    /\ pc = "idle"
    /\ alg' = "sidewinder"
    /\ pc' = "sw_top"
    /\ err' = "none"
    /\ odds' \in OddsChoices
    /\ i' = 0
    /\ j' = 0
    /\ tmplist' = <<>>
    /\ rt' = NoRoundTrip
    /\ ret' = NoReturn
    /\ UNCHANGED <<mk, markup>>
    /\ UNCHANGED <<num_rows, num_columns, visit, links, cell_visited, start_cell,
                   cell_notvisited, cell_unused, tmpgrids, first_cell>>

\* for cell in grid.grid[0]: if cell != grid.grid[0][-1]: cell.link(cell.east)
sidewinder_top ==
    /\ pc = "sw_top"
    /\ LET cell == <<0, j>>
           last == (j + 1 = num_columns)
       IN /\ IF cell # <<0, num_columns - 1>>
             THEN IF east(cell) = None
                  THEN Raise("AssertionError") /\ UNCHANGED <<links, i, j>>
                  ELSE /\ links' = link(links, cell, east(cell), TRUE)
                       /\ j' = j + 1
                       /\ UNCHANGED <<pc, err, i>>
             ELSE /\ UNCHANGED <<links, err>>
                  /\ IF last
                     THEN IF 1 < num_rows
                          THEN pc' = "sw_row" /\ i' = 1 /\ j' = 0
                          ELSE pc' = "returned" /\ UNCHANGED <<i, j>>
                     ELSE j' = j + 1 /\ UNCHANGED <<pc, i>>
    /\ UNCHANGED <<num_rows, num_columns, visit, cell_visited, alg, odds, tmplist,
                   start_cell, cell_notvisited, cell_unused, tmpgrids,
                   first_cell, rt, caller>>

\* A slip in the test: the last cell of a row does not close the run.
sidewinder_extends_unforced(u) == u >= odds

\* if random.uniform(0, 1) >= odds and j != grid.num_columns - 1
sidewinder_extends(u) == u >= odds /\ j # num_columns - 1

\* The run list after the branch taken at column j, before a close clears it.
sidewinder_run(extend) ==
    IF extend
    THEN Append(Append(tmplist, <<i, j>>), <<i, j + 1>>)
    ELSE Append(tmplist, <<i, j>>)

\* The end of one iteration of the loop over j: the next column, the next row
\* (with tmplist = []), or the return.
sidewinder_advance(run) ==
    IF j + 1 < num_columns
    THEN /\ j' = j + 1
         /\ tmplist' = run
         /\ UNCHANGED <<pc, i>>
    ELSE IF i + 1 < num_rows
         THEN /\ i' = i + 1
              /\ j' = 0
              /\ tmplist' = <<>>
              /\ pc' = pc
         ELSE /\ pc' = "returned"
              /\ tmplist' = run
              /\ UNCHANGED <<i, j>>

\* One iteration of: for i in range(1, grid.num_rows): for j in range(0, grid.num_columns)
sidewinder_row ==
    /\ pc = "sw_row"
    /\ \E u \in Draws :
          IF sidewinder_extends(u)
          THEN \* tmplist[-1] is grid.grid[i][j], just appended
               IF j + 1 >= num_columns
               THEN Raise("IndexError") /\ UNCHANGED <<links, i, j, tmplist>>
               ELSE /\ links' = link(links, <<i, j>>, <<i, j + 1>>, TRUE)
                    /\ err' = err
                    /\ sidewinder_advance(sidewinder_run(TRUE))
          ELSE \E k \in DOMAIN sidewinder_run(FALSE) :
                  LET chose == sidewinder_run(FALSE)[k]
                  IN IF north(chose) = None
                     THEN Raise("AssertionError") /\ UNCHANGED <<links, i, j, tmplist>>
                     ELSE /\ links' = link(links, chose, north(chose), TRUE)
                          /\ err' = err
                          /\ sidewinder_advance(<<>>)
    /\ UNCHANGED <<num_rows, num_columns, visit, cell_visited, alg, odds, start_cell,
                   cell_notvisited, cell_unused, tmpgrids, first_cell, rt, caller>>

----------------------------------------------------------------------------
\* aldous_broder

\* Grid.random_cell: random.choice(random.choice(self.grid))
random_cell == Cells

\* start_cell = grid.random_cell(); cell_notvisited = all the cells;
\* start_cell.cell_visited = True; cell_notvisited.remove(start_cell);
\* then the first test of: while len(cell_notvisited) != 0
aldous_broder_call ==
    /\ pc = "idle"
    /\ alg' = "aldous_broder"
    /\ err' = "none"
    /\ rt' = NoRoundTrip
    /\ ret' = NoReturn
    /\ UNCHANGED <<mk, markup>>
    /\ \E c \in random_cell :
          /\ start_cell' = c
          /\ cell_visited' = cell_visited \cup {c}
          /\ cell_notvisited' = remove(each_cell, c)
    /\ pc' = IF Len(cell_notvisited') # 0 THEN "ab_loop" ELSE "returned"
    /\ UNCHANGED <<num_rows, num_columns, visit, links, i, j, odds, tmplist,
                   cell_unused, tmpgrids, first_cell>>

\* A slip in the test: every chosen neighbour counts as not visited.
aldous_broder_unvisited_always(c) == TRUE

\* cell_to_link.cell_visited != True: the attribute is the bound method of the
\* class until True is assigned to it, and a bound method is not equal to True.
aldous_broder_unvisited(c) == c \notin cell_visited

\* A slip in the else branch: the walk stays where it is when no link is made.
aldous_broder_move_if_linked(cell_to_link, linked) ==
    IF linked THEN cell_to_link ELSE start_cell

\* start_cell = cell_to_link, in both branches
aldous_broder_move(cell_to_link, linked) == cell_to_link

\* One iteration of the while loop with cell_to_link the neighbour chosen.
aldous_broder_to(cell_to_link) ==
    /\ pc = "ab_loop"
    /\ cell_to_link \in Range(neighbors(start_cell))
    /\ IF aldous_broder_unvisited(cell_to_link)
       THEN IF cell_to_link \notin Range(cell_notvisited)
            THEN /\ Raise("ValueError")
                 /\ links' = link(links, start_cell, cell_to_link, TRUE)
                 /\ cell_visited' = cell_visited \cup {cell_to_link}
                 /\ UNCHANGED <<start_cell, cell_notvisited>>
            ELSE /\ links' = link(links, start_cell, cell_to_link, TRUE)
                 /\ cell_visited' = cell_visited \cup {cell_to_link}
                 /\ cell_notvisited' = remove(cell_notvisited, cell_to_link)
                 /\ start_cell' = aldous_broder_move(cell_to_link, TRUE)
                 /\ pc' = IF Len(cell_notvisited') # 0 THEN "ab_loop" ELSE "returned"
                 /\ err' = err
       ELSE /\ start_cell' = aldous_broder_move(cell_to_link, FALSE)
            /\ UNCHANGED <<links, cell_visited, cell_notvisited, pc, err>>
    /\ UNCHANGED <<num_rows, num_columns, visit, alg, i, j, odds, tmplist,
                   cell_unused, tmpgrids, first_cell, rt, caller>>

\* cell_to_link = random.choice(start_cell.neighbors())
aldous_broder_step ==
    /\ pc = "ab_loop"
    /\ \E k \in DOMAIN neighbors(start_cell) :
          aldous_broder_to(neighbors(start_cell)[k])

----------------------------------------------------------------------------
\* wilson

\* The for loop over tmpgrids in the branch that reaches a visited cell:
\*     if tmpgrids[i] != tmpgrids[-1]: tmpgrids[i].link(tmpgrids[i+1])
\*     cell_unused.remove(tmpgrids[i])
\* cell_unused holds every cell at most once, so remove raises ValueError at
\* the first path cell that is not in the list or was removed before.
wilson_remove_fails(U, k) ==
    \/ tmpgrids[k] \notin Range(U)
    \/ \E m \in 1..(k - 1) : tmpgrids[m] = tmpgrids[k]

\* The index at which the loop stops with ValueError, 0 when it runs to its end.
wilson_failure(U) ==
    IF \E k \in DOMAIN tmpgrids : wilson_remove_fails(U, k)
    THEN CHOOSE k \in DOMAIN tmpgrids :
            /\ wilson_remove_fails(U, k)
            /\ \A m \in 1..(k - 1) : ~wilson_remove_fails(U, m)
    ELSE 0

\* The links after the first k iterations of the loop.
RECURSIVE wilson_linked(_, _)
wilson_linked(L, k) ==
    IF k = 0 THEN L
    ELSE IF tmpgrids[k] # tmpgrids[Len(tmpgrids)]
         THEN link(wilson_linked(L, k - 1), tmpgrids[k], tmpgrids[k + 1], TRUE)
         ELSE wilson_linked(L, k - 1)

\* The unused list after the removals of the first k iterations.
wilson_removed(U, k) ==
    SelectSeq(U, LAMBDA c : \A m \in 1..k : tmpgrids[m] # c)

\* A slip in the commit: the cells of the path stay in cell_unused.
wilson_commit_keeps_unused(L, U) ==
    [links |-> wilson_linked(L, Len(tmpgrids)), unused |-> U, ok |-> TRUE]

\* The whole for loop: the links, the unused list and whether it ran to its end.
wilson_commit(L, U) ==
    IF wilson_failure(U) = 0
    THEN [links |-> wilson_linked(L, Len(tmpgrids)),
          unused |-> wilson_removed(U, Len(tmpgrids)),
          ok |-> TRUE]
    ELSE [links |-> wilson_linked(L, wilson_failure(U)),
          unused |-> wilson_removed(U, wilson_failure(U) - 1),
          ok |-> FALSE]

\* A slip after the loop: the path is not linked to the visited cell reached.
wilson_join_missing(L, last, next_cell) == L

\* tmpgrids[-1].link(next_cell)
wilson_join(L, last, next_cell) == link(L, last, next_cell, TRUE)

\* while tmpgrids[-1] != next_cell: tmpgrids.pop()
wilson_erase(path, next_cell) ==
    LET k == CHOOSE k \in DOMAIN path :
                /\ path[k] = next_cell
                /\ \A m \in (k + 1)..Len(path) : path[m] # next_cell
    IN SubSeq(path, 1, k)

\* A slip in the loop erasure: the revisited cell is popped as well.
wilson_truncate_too_far(path, next_cell) ==
    LET kept == wilson_erase(path, next_cell)
    IN IF Len(kept) > 1 THEN SubSeq(kept, 1, Len(kept) - 1) ELSE kept

\* The path after the walk came back to next_cell, a cell of the path.
wilson_truncate(path, next_cell) == wilson_erase(path, next_cell)

\* cell_unused = all the cells; chosen_cell = grid.random_cell();
\* cell_unused.remove(chosen_cell); first_cell = random.choice(cell_unused),
\* which raises IndexError on an empty list; tmpgrids.append(first_cell)
wilson_call ==
    /\ pc = "idle"
    /\ alg' = "wilson"
    /\ rt' = NoRoundTrip
    /\ ret' = NoReturn
    /\ UNCHANGED <<mk, markup>>
    /\ \E chosen_cell \in random_cell :
          /\ cell_unused' = remove(each_cell, chosen_cell)
          /\ IF Len(cell_unused') = 0
             THEN /\ Raise("IndexError")
                  /\ UNCHANGED <<first_cell, tmpgrids>>
             ELSE /\ first_cell' \in Range(cell_unused')
                  /\ tmpgrids' = <<first_cell'>>
                  /\ pc' = "wi_loop"
                  /\ err' = "none"
    /\ UNCHANGED <<num_rows, num_columns, visit, links, cell_visited, i, j, odds,
                   tmplist, start_cell, cell_notvisited>>

\* One iteration of the while True loop with next_cell the neighbour chosen.
wilson_to(next_cell) ==
    /\ pc = "wi_loop"
    /\ next_cell \in Range(neighbors(first_cell))
    /\ IF next_cell \notin Range(cell_unused)
       THEN LET done == wilson_commit(links, cell_unused)
            IN IF ~done.ok
               THEN /\ Raise("ValueError")
                    /\ links' = done.links
                    /\ cell_unused' = done.unused
                    /\ UNCHANGED <<tmpgrids, first_cell>>
               ELSE /\ links' = wilson_join(done.links, tmpgrids[Len(tmpgrids)], next_cell)
                    /\ cell_unused' = done.unused
                    /\ err' = err
                    /\ IF Len(cell_unused') = 0
                       THEN /\ pc' = "returned"
                            /\ tmpgrids' = <<>>
                            /\ first_cell' = first_cell
                       ELSE /\ pc' = pc
                            /\ first_cell' \in Range(cell_unused')
                            /\ tmpgrids' = <<first_cell'>>
       ELSE IF next_cell \in Range(tmpgrids)
            THEN /\ tmpgrids' = wilson_truncate(tmpgrids, next_cell)
                 /\ first_cell' = tmpgrids'[Len(tmpgrids')]
                 /\ UNCHANGED <<links, cell_unused, pc, err>>
            ELSE /\ tmpgrids' = Append(tmpgrids, next_cell)
                 /\ first_cell' = next_cell
                 /\ UNCHANGED <<links, cell_unused, pc, err>>
    /\ UNCHANGED <<num_rows, num_columns, visit, cell_visited, alg, i, j, odds,
                   tmplist, start_cell, cell_notvisited, rt, caller>>

\* next_cell = random.choice(first_cell.neighbors())
wilson_step ==
    /\ pc = "wi_loop"
    /\ \E k \in DOMAIN neighbors(first_cell) :
          wilson_to(neighbors(first_cell)[k])

----------------------------------------------------------------------------
\* recursive_backtracker: the body is the statement pass.

recursive_backtracker_call ==
    /\ pc = "idle"
    /\ alg' = "recursive_backtracker"
    /\ pc' = "returned"
    /\ err' = "none"
    /\ rt' = NoRoundTrip
    /\ ret' = NoReturn
    /\ UNCHANGED <<mk, markup>>
    /\ UNCHANGED <<num_rows, num_columns, visit, links, cell_visited, locals>>

----------------------------------------------------------------------------
\* Grid.deadends: len(Cell.all_links()) calls all_links on the class Cell with
\* no instance for self, which raises TypeError before anything is returned.

deadends_call ==
    /\ NoCall
    /\ err' = "TypeError"
    /\ ret' = [call |-> "deadends", args |-> <<>>, value |-> None]
    /\ UNCHANGED <<num_rows, num_columns, visit, links, cell_visited, alg, pc, locals, rt,
                   mk, markup>>

----------------------------------------------------------------------------
\* Cell.link and Cell.unlink called by the user of the grid

\* A slip in Cell.unlink: the reverse direction is left in place.
unlink_oneway(L, a, b, bidirectional) ==
    IF b \notin L[a] THEN L ELSE [L EXCEPT ![a] = @ \ {b}]

\* Cell.unlink: the links after the call, whether it raised or not.
\* del self.links[cell] raises KeyError when the key is absent, in the
\* first call or in the nested cell.unlink(self, bidirectional=False).
unlink(L, a, b, bidirectional) ==
    IF b \notin L[a] THEN L
    ELSE LET L1 == [L EXCEPT ![a] = @ \ {b}]
         IN IF bidirectional /\ a \in L1[b]
            THEN [L1 EXCEPT ![b] = @ \ {a}]
            ELSE L1

\* Cell.unlink raises KeyError.
unlink_raises(L, a, b, bidirectional) ==
    \/ b \notin L[a]
    \/ bidirectional /\ a \notin [L EXCEPT ![a] = @ \ {b}][b]

\* a.link(b, bidirectional), for two cells a and b of the grid
link_call_with(bidirectional) ==
    /\ NoCall
    /\ \E a \in Cells : \E b \in Cells \ {a} :
          /\ links' = link(links, a, b, bidirectional)
          /\ rt' = IF rt.stage = 1 /\ rt.a = a /\ rt.b = b /\ bidirectional
                   THEN [rt EXCEPT !.stage = 2]
                   ELSE NoRoundTrip
    /\ err' = "none"
    /\ ret' = NoReturn
    /\ UNCHANGED <<num_rows, num_columns, visit, cell_visited, alg, pc, locals, mk, markup>>

\* a.unlink(b, bidirectional), for two cells a and b of the grid
unlink_call_with(bidirectional) ==
    /\ NoCall
    /\ \E a \in Cells : \E b \in Cells \ {a} :
          /\ links' = unlink(links, a, b, bidirectional)
          /\ IF unlink_raises(links, a, b, bidirectional)
             THEN /\ err' = "KeyError"
                  /\ rt' = [stage |-> 3, a |-> a, b |-> b, pre |-> links]
             ELSE /\ err' = "none"
                  /\ rt' = IF is_linked(links, a, b) /\ is_linked(links, b, a)
                              /\ bidirectional
                           THEN [stage |-> 1, a |-> a, b |-> b, pre |-> links]
                           ELSE NoRoundTrip
    /\ ret' = NoReturn
    /\ UNCHANGED <<num_rows, num_columns, visit, cell_visited, alg, pc, locals, mk, markup>>

\* The calls with the default bidirectional=True.
link_call == link_call_with(TRUE)
unlink_call == unlink_call_with(TRUE)

----------------------------------------------------------------------------
Next ==
    \/ binary_tree_call
    \/ binary_tree_top
    \/ binary_tree_east
    \/ binary_tree_inner
    \/ sidewinder_call
    \/ sidewinder_top
    \/ sidewinder_row
    \/ aldous_broder_call
    \/ aldous_broder_step
    \/ wilson_call
    \/ wilson_step
    \/ recursive_backtracker_call
    \/ deadends_call

Spec == Init /\ [][Next]_vars

\* The number of steps between cell c and the nearest cell of T, for a walk
\* over geographic neighbours.
Distance(c, T) ==
    LET abs(x) == IF x < 0 THEN -x ELSE x
        D == {abs(c[1] - t[1]) + abs(c[2] - t[2]) : t \in T}
    IN CHOOSE d \in D : \A e \in D : d <= e

\* No two cells of a grid of Init are further apart.
MaxDistance == 2 * MaxDim - 2

\* A step of wilson's walk from a cell k steps away from the visited cells to
\* a neighbour k - 1 steps away from them (for k = 1, to a visited cell).
wilson_closer(k) ==
    /\ pc = "wi_loop"
    /\ LET visited == Cells \ Range(cell_unused)
       IN /\ Distance(first_cell, visited) = k
          /\ \E n \in Range(neighbors(first_cell)) :
                /\ Distance(n, visited) = k - 1
                /\ wilson_to(n)

\* A step of aldous_broder's walk from a cell k steps away from the cells not
\* yet visited to a neighbour k - 1 steps away from them (for k = 1, to one of them).
aldous_broder_closer(k) ==
    /\ pc = "ab_loop"
    /\ Distance(start_cell, Range(cell_notvisited)) = k
    /\ \E n \in Range(neighbors(start_cell)) :
          /\ Distance(n, Range(cell_notvisited)) = k - 1
          /\ aldous_broder_to(n)

\* Fair random choices. random.choice draws each neighbour of the cell the walk
\* is at with the same probability at every step, so a kind of choice that is
\* possible again and again is made again and again. Assumed here is no more
\* than this for the choices that take the walk one step closer to the cells
\* it has to reach.
FairWilson == \A k \in 1..MaxDistance : SF_vars(wilson_closer(k))
FairAldousBroder == \A k \in 1..MaxDistance : SF_vars(aldous_broder_closer(k))

FairSpecWilson == Spec /\ FairWilson
FairSpecAldousBroder == Spec /\ FairAldousBroder

\* The grid in the hands of a caller that also links and unlinks cells (with
\* the default bidirectional=True) before and after the generation call.
InitApi ==
    \E r \in 1..ApiMaxDim, c \in 1..ApiMaxDim :
        /\ r * c <= ApiMaxCells
        /\ Fresh(r, c)

NextApi ==
    \/ Next
    \/ link_call
    \/ unlink_call

SpecApi == InitApi /\ [][NextApi]_vars

\* A caller that links and unlinks cells in one direction as well
\* (bidirectional=False), on a grid no generation algorithm is run on.
link_call_oneway == link_call_with(FALSE)
unlink_call_oneway == unlink_call_with(FALSE)

NextOneWay ==
    \/ link_call
    \/ unlink_call
    \/ link_call_oneway
    \/ unlink_call_oneway

SpecOneWay == InitApi /\ [][NextOneWay]_vars

----------------------------------------------------------------------------
\* Queries of the grid and the distance markups

\* The row and column arguments tried: around the rows and columns of the grids.
Indices == (0 - ApiMaxDim - 1)..(ApiMaxDim + 1)

\* list[k] for a list of n items is an item for k in -n .. n - 1 and raises
\* IndexError for every other k.
in_range(k, n) == k >= 0 - n /\ k < n

\* The position of list[k]: a negative k counts from the end of the list.
index(k, n) == IF k < 0 THEN k + n ELSE k

\* Grid.cell_at: self.grid[row][column], None standing for IndexError
cell_at(row, column) ==
    IF in_range(row, num_rows) /\ in_range(column, num_columns)
    THEN <<index(row, num_rows), index(column, num_columns)>>
    ELSE None

cell_at_call ==
    /\ NoCall
    /\ \E row \in Indices : \E column \in Indices :
          /\ ret' = [call |-> "cell_at", args |-> <<row, column>>,
                     value |-> cell_at(row, column)]
          /\ err' = IF cell_at(row, column) = None THEN "IndexError" ELSE "none"
    /\ UNCHANGED <<num_rows, num_columns, visit, links, cell_visited, alg, pc, locals,
                   rt, mk, markup>>

\* Markup.__getitem__: self.marks.get(cell, self.default), the marks being the
\* list of the <<cell, value>> items of the dict in the order of insertion.
getitem(markup_, cell) ==
    IF \E k \in DOMAIN markup_.marks : markup_.marks[k][1] = cell
    THEN markup_.marks[CHOOSE k \in DOMAIN markup_.marks :
                          markup_.marks[k][1] = cell][2]
    ELSE markup_.default

\* DijkstraMarkup.__init__(grid, root_cell, default=0):
\* super().__init__(grid, default); pass
DijkstraMarkup(root_cell) == [marks |-> <<>>, default |-> 0]

\* DijkstraMarkup.farthest_cell: pass, which returns None
farthest_cell(dm) == None

\* ShortestPathMarkup.__init__: super().__init__(grid, start_cell); pass
ShortestPathMarkup(start, goal_cell) == DijkstraMarkup(start)

DijkstraMarkup_call ==
    /\ NoCall
    /\ \E root_cell \in Cells :
          ret' = [call |-> "DijkstraMarkup", args |-> <<root_cell>>,
                  value |-> DijkstraMarkup(root_cell)]
    /\ err' = "none"
    /\ UNCHANGED <<num_rows, num_columns, visit, links, cell_visited, alg, pc, locals,
                   rt, mk, markup>>

\* LongestPathMarkup.__init__: farthest, _ = dm.farthest_cell() unpacks the
\* value returned, which raises TypeError when it is None.
LongestPathMarkup_call ==
    /\ NoCall
    /\ \E start \in random_cell :
          LET dm == DijkstraMarkup(start)
          IN IF farthest_cell(dm) = None
             THEN /\ err' = "TypeError"
                  /\ ret' = [call |-> "LongestPathMarkup", args |-> <<>>,
                             value |-> None]
             ELSE LET farthest == farthest_cell(dm)[1]
                      dm2 == DijkstraMarkup(farthest)
                  IN IF farthest_cell(dm2) = None
                     THEN /\ err' = "TypeError"
                          /\ ret' = [call |-> "LongestPathMarkup", args |-> <<>>,
                                     value |-> None]
                     ELSE /\ err' = "none"
                          /\ ret' = [call |-> "LongestPathMarkup", args |-> <<>>,
                                     value |-> ShortestPathMarkup(farthest,
                                                   farthest_cell(dm2)[1])]
    /\ UNCHANGED <<num_rows, num_columns, visit, links, cell_visited, alg, pc, locals,
                   rt, mk, markup>>

\* A caller that runs a generation algorithm and queries the grid.
NextQuery ==
    \/ Next
    \/ cell_at_call
    \/ DijkstraMarkup_call
    \/ LongestPathMarkup_call

SpecQuery == InitApi /\ [][NextQuery]_vars

----------------------------------------------------------------------------
\* Markup and ColorizedMarkup

\* The values the caller sets, and the defaults it constructs a Markup with
\* (' ' as in Markup.__init__, 0 as in show_maze.main).
Values == 0..MaxValue
Defaults == {Blank, 0}

\* m = Markup(grid, default)
Markup_call ==
    /\ NoCall
    /\ \E default \in Defaults : mk' = [marks |-> <<>>, default |-> default]
    /\ err' = "none"
    /\ ret' = NoReturn
    /\ UNCHANGED <<num_rows, num_columns, visit, links, cell_visited, alg, pc, locals,
                   rt, markup>>

\* Markup.__setitem__: self.marks[cell] = value. A dict keeps a key at the
\* place of its first insertion and adds a new key at the end.
setitem(markup_, cell, value) ==
    IF \E k \in DOMAIN markup_.marks : markup_.marks[k][1] = cell
    THEN [markup_ EXCEPT !.marks =
             [k \in DOMAIN markup_.marks |->
                 IF markup_.marks[k][1] = cell THEN <<cell, value>>
                 ELSE markup_.marks[k]]]
    ELSE [markup_ EXCEPT !.marks = Append(@, <<cell, value>>)]

\* m[cell] = value
setitem_call ==
    /\ NoCall
    /\ \E cell \in Cells : \E value \in Values : mk' = setitem(mk, cell, value)
    /\ err' = "none"
    /\ ret' = NoReturn
    /\ UNCHANGED <<num_rows, num_columns, visit, links, cell_visited, alg, pc, locals,
                   rt, markup>>

\* A slip in max: of the keys with the largest value the last one is kept.
max_last(markup_) ==
    LET M == markup_.marks
        k == CHOOSE k \in DOMAIN M :
                /\ \A n \in DOMAIN M : M[n][2] <= M[k][2]
                /\ \A n \in (k + 1)..Len(M) : M[n][2] < M[k][2]
    IN M[k][1]

\* Markup.max: max(self.marks.keys(), key=self.__getitem__), for marks that
\* are not empty: the builtin keeps the first of the keys with the largest value.
max(markup_) ==
    LET M == markup_.marks
        k == CHOOSE k \in DOMAIN M :
                /\ \A n \in DOMAIN M : M[n][2] <= M[k][2]
                /\ \A n \in 1..(k - 1) : M[n][2] < M[k][2]
    IN M[k][1]

\* Markup.min: min(self.marks.keys(), key=self.__getitem__), likewise.
min(markup_) ==
    LET M == markup_.marks
        k == CHOOSE k \in DOMAIN M :
                /\ \A n \in DOMAIN M : M[n][2] >= M[k][2]
                /\ \A n \in 1..(k - 1) : M[n][2] > M[k][2]
    IN M[k][1]

\* m.max(): the builtin raises ValueError for an empty sequence.
max_call ==
    /\ NoCall
    /\ IF mk.marks = <<>>
       THEN /\ err' = "ValueError"
            /\ ret' = [call |-> "max", args |-> <<>>, value |-> None]
       ELSE /\ err' = "none"
            /\ ret' = [call |-> "max", args |-> <<>>, value |-> max(mk)]
    /\ UNCHANGED <<num_rows, num_columns, visit, links, cell_visited, alg, pc, locals,
                   rt, mk, markup>>

\* m.min()
min_call ==
    /\ NoCall
    /\ IF mk.marks = <<>>
       THEN /\ err' = "ValueError"
            /\ ret' = [call |-> "min", args |-> <<>>, value |-> None]
       ELSE /\ err' = "none"
            /\ ret' = [call |-> "min", args |-> <<>>, value |-> min(mk)]
    /\ UNCHANGED <<num_rows, num_columns, visit, links, cell_visited, alg, pc, locals,
                   rt, mk, markup>>

\* round(n / d) for n >= 0 and d > 0: Python rounds a half to the even
\* neighbour. (For the values of the model the float products 255 * intensity
\* and 127 * intensity round as the exact quotients do.)
round(n, d) ==
    LET q == n \div d
        r == n % d
    IN IF 2 * r < d THEN q
       ELSE IF 2 * r > d THEN q + 1
       ELSE IF q % 2 = 0 THEN q ELSE q + 1

\* A slip in the intensity: the distance itself in the place of the distance to the
\* largest value.
intensity_from_root(max_value, cell_value) == cell_value

\* intensity = (max_value - cell_value) / max_value: its numerator, the
\* denominator being max_value
intensity(max_value, cell_value) == max_value - cell_value

\* The channels ColorizedMarkup.__init__ is constructed with.
Channels == {"R", "G", "B"}

\* dark, bright and the list set for a cell, by self.channel
colour(channel, max_value, cell_value) ==
    LET dark == round(255 * intensity(max_value, cell_value), max_value)
        bright == round(127 * intensity(max_value, cell_value), max_value) + 128
    IN IF channel = "R" THEN <<bright, dark, dark>>
       ELSE IF channel = "G" THEN <<dark, bright, dark>>
       ELSE <<dark, dark, bright>>

\* What the body of the loop raises for cell c: max_value - cell_value raises
\* TypeError for the string default, the division ZeroDivisionError for 0.
colour_error(markup_, max_value, c) ==
    IF getitem(markup_, c) = Blank THEN "TypeError"
    ELSE IF max_value = 0 THEN "ZeroDivisionError"
    ELSE "none"

\* ColorizedMarkup.intensity_colorize(markup): the marks of the ColorizedMarkup
\* (its default is ' ') and the exception raised, for a markup whose marks are
\* not empty. The loop stops at the first cell of each_cell that raises.
intensity_colorize(markup_, channel) ==
    LET max_value == getitem(markup_, max(markup_))
        failing == {k \in DOMAIN each_cell :
                       colour_error(markup_, max_value, each_cell[k]) # "none"}
        stop == IF failing = {} THEN size + 1
                ELSE CHOOSE k \in failing : \A n \in failing : k <= n
    IN [marks |-> [k \in 1..(stop - 1) |->
                      <<each_cell[k],
                        colour(channel, max_value, getitem(markup_, each_cell[k]))>>],
        default |-> Blank,
        err |-> IF failing = {} THEN "none"
                ELSE colour_error(markup_, max_value, each_cell[stop])]

\* ColorizedMarkup(grid, channel).intensity_colorize(m); markup.max() raises
\* ValueError when m holds no mark.
intensity_colorize_call ==
    /\ NoCall
    /\ \E channel \in Channels :
          IF mk.marks = <<>>
          THEN /\ err' = "ValueError"
               /\ ret' = [call |-> "intensity_colorize", args |-> <<channel>>,
                          value |-> [marks |-> <<>>, default |-> Blank]]
          ELSE /\ err' = intensity_colorize(mk, channel).err
               /\ ret' = [call |-> "intensity_colorize", args |-> <<channel>>,
                          value |-> [marks |-> intensity_colorize(mk, channel).marks,
                                     default |-> Blank]]
    /\ UNCHANGED <<num_rows, num_columns, visit, links, cell_visited, alg, pc, locals,
                   rt, mk, markup>>

\* A caller that fills a markup, asks for its extremes and colorizes it.
NextMarkup ==
    \/ Markup_call
    \/ setitem_call
    \/ max_call
    \/ min_call
    \/ intensity_colorize_call

SpecMarkup == InitApi /\ [][NextMarkup]_vars

\* `if not start_row`: an argument that is None (the default) or 0 is replaced
\* by the middle row, num_rows // 2; likewise for the column. An argument is
\* None or <<n>> for the number n.
start_index(arg, n) == IF arg = None \/ arg = <<0>> THEN n \div 2 ELSE arg[1]

\* The arguments start_row and start_column tried.
StartArgs == {None} \cup {<<n>> : n \in 0..(ApiMaxDim - 1)}

\* ColorizedMarkup.intensity_colorize(markup) for any markup: markup.max()
\* raises ValueError when the markup holds no mark.
colorized(markup_, channel) ==
    IF markup_.marks = <<>>
    THEN [marks |-> <<>>, default |-> Blank, err |-> "ValueError"]
    ELSE intensity_colorize(markup_, channel)

\* ColorizedMarkup(grid, channel).colorize_dijkstra(start_row, start_column):
\* cell_at raises IndexError outside the grid; then
\* dm = DijkstraMarkup(self.grid, start_cell); self.intensity_colorize(dm)
colorize_dijkstra_call ==
    /\ NoCall
    /\ \E channel \in Channels : \E start_row \in StartArgs :
       \E start_column \in StartArgs :
          LET start_cell_ == cell_at(start_index(start_row, num_rows),
                                     start_index(start_column, num_columns))
              done == colorized(DijkstraMarkup(start_cell_), channel)
          IN IF start_cell_ = None
             THEN /\ err' = "IndexError"
                  /\ ret' = [call |-> "colorize_dijkstra",
                             args |-> <<channel, start_row, start_column>>,
                             value |-> [marks |-> <<>>, default |-> Blank]]
             ELSE /\ err' = done.err
                  /\ ret' = [call |-> "colorize_dijkstra",
                             args |-> <<channel, start_row, start_column>>,
                             value |-> [marks |-> done.marks, default |-> Blank]]
    /\ UNCHANGED <<num_rows, num_columns, visit, links, cell_visited, alg, pc,
                   locals, rt, mk, markup>>

\* A caller that fills a markup and colorizes it, or colorizes the distances.
NextColorize ==
    \/ Markup_call
    \/ setitem_call
    \/ intensity_colorize_call
    \/ colorize_dijkstra_call

SpecColorize == InitApi /\ [][NextColorize]_vars

----------------------------------------------------------------------------
\* Grid.set_markup and Grid.__str__

\* A string is the sequence of its characters.
Digits == <<"0", "1", "2", "3", "4", "5", "6", "7", "8", "9">>

\* str(cell_value) for a value of a markup: the string default or a number
RECURSIVE str(_)
str(value) ==
    IF value = Blank THEN <<" ">>
    ELSE IF value < 10 THEN <<Digits[value + 1]>>
    ELSE str(value \div 10) \o <<Digits[(value % 10) + 1]>>

\* '{:^3s}'.format(s): s centred in 3 characters, the odd space of the padding
\* to the right; a longer s is left as it is.
format(s) ==
    LET pad == 3 - Len(s)
        left == pad \div 2
    IN IF pad <= 0 THEN s
       ELSE [k \in 1..left |-> " "] \o s \o [k \in 1..(pad - left) |-> " "]

\* A slip in the test of the east wall: open where the cells are not linked.
east_wall_inverted(L, cell) ==
    IF east(cell) = None THEN "|"
    ELSE IF is_linked(L, east(cell), cell) THEN "|"
    ELSE " "

\* if not cell.east: '|' elif cell.east.is_linked(cell): ' ' else: '|'
east_wall(L, cell) ==
    IF east(cell) = None THEN "|"
    ELSE IF is_linked(L, east(cell), cell) THEN " "
    ELSE "|"

\* if not cell.south: '---+' elif cell.south.is_linked(cell): '   +' else: '---+'
south_wall(L, cell) ==
    IF south(cell) = None THEN <<"-", "-", "-", "+">>
    ELSE IF is_linked(L, south(cell), cell) THEN <<" ", " ", " ", "+">>
    ELSE <<"-", "-", "-", "+">>

\* The first loop over the cells of row r, from column c on: label and east wall.
RECURSIVE row_labels(_, _, _, _)
row_labels(L, markup_, r, c) ==
    IF c >= num_columns THEN <<>>
    ELSE format(str(getitem(markup_, <<r, c>>))) \o <<east_wall(L, <<r, c>>)>>
            \o row_labels(L, markup_, r, c + 1)

\* The second loop over the cells of row r, from column c on: the south walls.
RECURSIVE row_walls(_, _, _)
row_walls(L, r, c) ==
    IF c >= num_columns THEN <<>>
    ELSE south_wall(L, <<r, c>>) \o row_walls(L, r, c + 1)

\* '+' + '---+' * self.num_columns
top_line == <<"+">> \o [k \in 1..(4 * num_columns) |-> IF k % 4 = 0 THEN "+" ELSE "-"]

\* Grid.__str__ with self.markup set: the lines of ret_val, each of which ends
\* with '\n' in the string: the top line, then two lines for each row.
grid_str(L, markup_) ==
    [n \in 1..(1 + 2 * num_rows) |->
        IF n = 1 THEN top_line
        ELSE IF n % 2 = 0
             THEN <<"|">> \o row_labels(L, markup_, (n - 2) \div 2, 0)
             ELSE <<"+">> \o row_walls(L, (n - 3) \div 2, 0)]

\* grid.set_markup(m)
set_markup_call ==
    /\ NoCall
    /\ markup' = "m"
    /\ err' = "none"
    /\ ret' = NoReturn
    /\ UNCHANGED <<num_rows, num_columns, visit, links, cell_visited, alg, pc, locals,
                   rt, mk>>

\* str(grid): Grid.__init__ sets no attribute markup, so self.markup raises
\* AttributeError until set_markup was called.
str_call ==
    /\ NoCall
    /\ IF markup = "unset"
       THEN /\ err' = "AttributeError"
            /\ ret' = [call |-> "__str__", args |-> <<>>, value |-> None]
       ELSE /\ err' = "none"
            /\ ret' = [call |-> "__str__", args |-> <<>>,
                       value |-> grid_str(links, mk)]
    /\ UNCHANGED <<num_rows, num_columns, visit, links, cell_visited, alg, pc, locals,
                   rt, mk, markup>>

\* m[cell] = value, by a caller that marks no more than MaxMarks cells.
setitem_call_few ==
    /\ Len(mk.marks) < MaxMarks
    /\ setitem_call

\* A caller that links cells, marks some and renders the grid as text.
NextRender ==
    \/ link_call
    \/ Markup_call
    \/ setitem_call_few
    \/ set_markup_call
    \/ str_call

SpecRender == InitApi /\ [][NextRender]_vars

----------------------------------------------------------------------------
\* Cell.cell_visited and Cell.is_visited

\* Cell.is_visited: self.visit == True
is_visited(c) == c \in visit

\* c.cell_visited() raises TypeError when the attribute cell_visited of c was
\* assigned True (aldous_broder, lines 414 and 424): True is not callable.
cell_visited_fails(c) == c \in cell_visited

\* c.cell_visited(), called for a cell of the grid after a generation call:
\* self.visit = True
cell_visited_call ==
    /\ pc \in {"returned", "raised"}
    /\ \E c \in Cells :
          IF cell_visited_fails(c)
          THEN /\ err' = "TypeError"
               /\ visit' = visit
               /\ ret' = [call |-> "cell_visited", args |-> <<c>>, value |-> None]
          ELSE /\ err' = "none"
               /\ visit' = visit \cup {c}
               /\ ret' = [call |-> "cell_visited", args |-> <<c>>, value |-> None]
    /\ UNCHANGED <<num_rows, num_columns, links, cell_visited, alg, pc, locals,
                   rt, mk, markup>>

\* A caller that runs a generation algorithm and marks cells visited afterwards.
NextVisit ==
    \/ Next
    \/ cell_visited_call

SpecVisit == InitApi /\ [][NextVisit]_vars

----------------------------------------------------------------------------
\* Claims

\* C1: on a fresh grid binary_tree never fails, and when it has returned the
\* links form a spanning tree of the grid graph: links only between geographic
\* neighbours, rows*columns - 1 undirected links, connected, no cycle.
C1_BinaryTreeSpanningTree ==
    alg = "binary_tree" =>
        /\ pc # "raised"
        /\ pc = "returned" => SpanningTree(links)

\* A 3x3 run of binary_tree that chose north for one cell and east for another.
C1_Witness ==
    /\ alg = "binary_tree"
    /\ pc = "returned"
    /\ num_rows = 3
    /\ num_columns = 3
    /\ is_linked(links, <<1, 0>>, <<0, 0>>)
    /\ is_linked(links, <<2, 0>>, <<2, 1>>)

\* The maximal west-to-east runs of row r: the column intervals <<a, b>> whose
\* consecutive cells are linked and that are linked neither further west nor east.
Runs(L, r) ==
    {ab \in (0..(num_columns - 1)) \X (0..(num_columns - 1)) :
        /\ ab[1] <= ab[2]
        /\ \A c \in ab[1]..(ab[2] - 1) : is_linked(L, <<r, c>>, <<r, c + 1>>)
        /\ ab[1] = 0 \/ ~is_linked(L, <<r, ab[1]>>, <<r, ab[1] - 1>>)
        /\ ab[2] = num_columns - 1 \/ ~is_linked(L, <<r, ab[2]>>, <<r, ab[2] + 1>>)}

\* C2: on a fresh grid, for every odds and every draw, sidewinder never fails,
\* and when it has returned the links form a spanning tree of the grid graph;
\* the top row is one run and every run of a lower row has exactly one north link.
C2_SidewinderSpanningTree ==
    alg = "sidewinder" =>
        /\ pc # "raised"
        /\ pc = "returned" =>
            /\ SpanningTree(links)
            /\ Runs(links, 0) = {<<0, num_columns - 1>>}
            /\ \A r \in 1..(num_rows - 1) : \A ab \in Runs(links, r) :
                  Cardinality({c \in ab[1]..ab[2] :
                                  is_linked(links, <<r, c>>, <<r - 1, c>>)}) = 1

\* A 3x3 run of sidewinder with a run of two cells closed by the draw in row 1
\* and a run of three cells closed by the end of row 2.
C2_Witness ==
    /\ alg = "sidewinder"
    /\ pc = "returned"
    /\ num_rows = 3
    /\ num_columns = 3
    /\ Runs(links, 1) = {<<0, 1>>, <<2, 2>>}
    /\ Runs(links, 2) = {<<0, 2>>}

\* C3: on a fresh grid aldous_broder never fails, and when it has returned no
\* cell is left in the list of cells not visited, every cell has been marked
\* visited and the links form a spanning tree of the grid graph.
C3_AldousBroderSpanningTree ==
    alg = "aldous_broder" =>
        /\ pc # "raised"
        /\ pc = "returned" =>
            /\ cell_notvisited = <<>>
            /\ cell_visited = Cells
            /\ SpanningTree(links)

\* A 3x3 run of aldous_broder that has returned, its walk ending in the centre.
C3_Witness ==
    /\ alg = "aldous_broder"
    /\ pc = "returned"
    /\ num_rows = 3
    /\ num_columns = 3
    /\ start_cell = <<1, 1>>

\* C4: on a fresh grid of at least two cells wilson never fails, and when it has
\* returned the unvisited list is empty and the links form a spanning tree of
\* the grid graph (8 links on a 3x3 grid).
C4_WilsonSpanningTree ==
    (alg = "wilson" /\ size >= 2) =>
        /\ pc # "raised"
        /\ pc = "returned" =>
            /\ cell_unused = <<>>
            /\ SpanningTree(links)
            /\ (num_rows = 3 /\ num_columns = 3) => Cardinality(Edges(links)) = 8

\* A 3x3 run of wilson that has returned with its 8 links.
C4_Witness ==
    /\ alg = "wilson"
    /\ pc = "returned"
    /\ num_rows = 3
    /\ num_columns = 3
    /\ Cardinality(Edges(links)) = 8

\* C5 (as claimed): after recursive_backtracker has returned on a fresh grid the
\* links form a spanning tree of the grid graph.
C5_RecursiveBacktrackerSpanningTree ==
    (alg = "recursive_backtracker" /\ pc = "returned") => SpanningTree(links)

\* C6 (as claimed): on a 1x1 grid no call raises (each of the five algorithms
\* returns, deadends() returns), no random-walk loop is entered and no link is made.
C6_SingleCellGrid ==
    size = 1 =>
        /\ err = "none"
        /\ pc \notin {"raised", "ab_loop", "wi_loop"}
        /\ links[<<0, 0>>] = {}

\* C7: under fair random choices wilson, once in its loop, eventually returns
\* with the unvisited list empty.
C7_WilsonTerminates ==
    (alg = "wilson" /\ pc = "wi_loop") ~> (pc = "returned" /\ cell_unused = <<>>)

\* A 3x3 run of wilson that has returned and whose last path was four cells long.
C7_Witness ==
    /\ alg = "wilson"
    /\ pc = "returned"
    /\ num_rows = 3
    /\ num_columns = 3
    /\ cell_unused = <<>>
    /\ Cardinality(Edges(links)) = 8
    /\ first_cell = <<2, 2>>
    /\ link_count(links, <<2, 2>>) = 1

\* C8: under fair random choices aldous_broder, once in its loop, eventually
\* returns with the list of cells not visited empty, and every step of the loop
\* moves the walk to a neighbour of the cell it was at, linked or not.
C8_AldousBroderTerminates ==
    /\ [][pc = "ab_loop" => start_cell' \in Range(neighbors(start_cell))]_vars
    /\ (alg = "aldous_broder" /\ pc = "ab_loop")
           ~> (pc = "returned" /\ cell_notvisited = <<>>)

\* A 3x3 walk of aldous_broder that stands on a cell it has walked away from
\* before: the last step moved without linking, and cells are still unvisited.
C8_Witness ==
    /\ alg = "aldous_broder"
    /\ pc = "ab_loop"
    /\ num_rows = 3
    /\ num_columns = 3
    /\ link_count(links, start_cell) >= 2
    /\ Len(cell_notvisited) >= 1

\* C9: whatever generation steps and link / unlink calls (bidirectional) were
\* made, a is linked to b exactly when b is linked to a.
C9_LinkSymmetry ==
    \A a \in Cells : \A b \in Cells : is_linked(links, a, b) <=> is_linked(links, b, a)

\* A generation algorithm has returned on a grid where the caller linked two
\* cells that are no neighbours, and an unlink call has just removed a link.
C9_Witness ==
    /\ pc = "returned"
    /\ num_rows = 2
    /\ num_columns = 2
    /\ is_linked(links, <<0, 0>>, <<1, 1>>)
    /\ is_linked(links, <<1, 1>>, <<0, 0>>)
    /\ rt.stage = 1

\* C10: after a.unlink(b) on two linked cells neither is linked to the other and
\* no other link changed; after the a.link(b) that follows, both are linked
\* again and all link sets are those before the unlink.
C10_UnlinkLinkRoundTrip ==
    /\ rt.stage = 1 =>
        /\ ~is_linked(links, rt.a, rt.b)
        /\ ~is_linked(links, rt.b, rt.a)
        /\ \A c \in Cells : \A d \in Cells :
              <<c, d>> \notin {<<rt.a, rt.b>>, <<rt.b, rt.a>>}
                  => (is_linked(links, c, d) <=> is_linked(rt.pre, c, d))
    /\ rt.stage = 2 =>
        /\ is_linked(links, rt.a, rt.b)
        /\ is_linked(links, rt.b, rt.a)
        /\ links = rt.pre

\* A round trip completed on a grid that holds other links as well.
C10_Witness ==
    /\ rt.stage = 2
    /\ Cardinality(Edges(links)) >= 3

\* C11 (as claimed): when a.unlink(b) raises (KeyError, the code's NotLinked),
\* the link sets of all cells are those before the call, also when only one
\* direction of the link existed.
C11_UnlinkNotLinked ==
    rt.stage = 3 => links = rt.pre

\* C12 (as claimed): deadends() returns, and what it returns are exactly the
\* cells of the grid whose link_count() is 1.
C12_Deadends ==
    ret.call = "deadends" =>
        /\ err = "none"
        /\ Range(ret.value) = {c \in Cells : link_count(links, c) = 1}

\* C13 (as claimed): cell_at(row, column) returns the cell <<row, column>> when
\* 0 <= row < num_rows and 0 <= column < num_columns, and raises (IndexError)
\* for every other pair of integers, negative ones included.
C13_CellAt ==
    ret.call = "cell_at" =>
        IF ret.args \in Cells
        THEN err = "none" /\ ret.value = ret.args
        ELSE err = "IndexError"

\* The number of link hops from cell a to cell b (-1 when b is not reachable).
RECURSIVE HopsFrom(_, _, _, _)
HopsFrom(L, S, b, d) ==
    IF b \in S THEN d
    ELSE LET T == S \cup UNION {L[c] : c \in S}
         IN IF T = S THEN 0 - 1 ELSE HopsFrom(L, T, b, d + 1)

Hops(L, a, b) == HopsFrom(L, {a}, b, 0)

\* A maze was generated: a generation algorithm returned a spanning tree.
Generated == pc = "returned" /\ SpanningTree(links)

\* C14 (as claimed): the DijkstraMarkup built from a root cell of a generated
\* maze gives each cell its number of link hops from the root: 0 for the root,
\* and values that differ by exactly 1 for every two linked cells.
C14_DijkstraDistances ==
    (ret.call = "DijkstraMarkup" /\ Generated) =>
        /\ err = "none"
        /\ getitem(ret.value, ret.args[1]) = 0
        /\ \A c \in Cells : getitem(ret.value, c) = Hops(links, ret.args[1], c)
        /\ \A a \in Cells : \A b \in links[a] :
              getitem(ret.value, a) - getitem(ret.value, b) \in {0 - 1, 1}

\* The largest number of link hops between two cells.
Diameter(L) ==
    CHOOSE d \in {Hops(L, a, b) : a \in Cells, b \in Cells} :
        \A a \in Cells : \A b \in Cells : Hops(L, a, b) <= d

\* The cells of the path between a and b in a tree.
PathCells(L, a, b) ==
    {c \in Cells : Hops(L, a, c) + Hops(L, c, b) = Hops(L, a, b)}

\* C15 (as claimed): constructing LongestPathMarkup on a generated maze
\* succeeds, and the cells it marks are those of one path as long as the
\* diameter of the tree.
C15_LongestPath ==
    (ret.call = "LongestPathMarkup" /\ Generated) =>
        /\ err = "none"
        /\ \E a \in Cells : \E b \in Cells :
              /\ Hops(links, a, b) = Diameter(links)
              /\ \A c \in Cells :
                    c \in PathCells(links, a, b)
                        <=> getitem(ret.value, c) # ret.value.default

\* The cells the markup m holds a mark for, and the place of a cell in the
\* order of the first set of each cell.
Marked == {mk.marks[k][1] : k \in DOMAIN mk.marks}
Position(c) == CHOOSE k \in DOMAIN mk.marks : mk.marks[k][1] = c
RowMajor(c) == c[1] * num_columns + c[2]

Selected == IF ret.args[1] = "R" THEN 1 ELSE IF ret.args[1] = "G" THEN 2 ELSE 3
Bright(col) == col[Selected]
Dark(col) ==
    LET others == {col[k] : k \in {1, 2, 3} \ {Selected}}
    IN IF Cardinality(others) = 1 THEN CHOOSE d \in others : TRUE ELSE 0 - 1

C18_TextRender ==
    (ret.call = "__str__" /\ markup = "m") =>
        /\ err = "none"
        /\ Len(ret.value) = 1 + 2 * num_rows
        /\ Len(ret.value[1]) = 1 + 4 * num_columns
        /\ \A k \in 1..(1 + 4 * num_columns) :
              ret.value[1][k] = IF k % 4 = 1 THEN "+" ELSE "-"
        /\ \A c \in Cells :
              LET labels == ret.value[2 * c[1] + 2]
                  borders == ret.value[2 * c[1] + 3]
                  at == 4 * c[2] + 1
                  linked_east == east(c) # None /\ is_linked(links, c, east(c))
                  linked_south == south(c) # None /\ is_linked(links, c, south(c))
              IN /\ Len(labels) = 1 + 4 * num_columns
                 /\ Len(borders) = 1 + 4 * num_columns
                 /\ labels[1] = "|"
                 /\ borders[1] = "+"
                 /\ labels[at + 4] = IF linked_east THEN " " ELSE "|"
                 /\ SubSeq(borders, at + 1, at + 4) =
                       IF linked_south THEN <<" ", " ", " ", "+">>
                       ELSE <<"-", "-", "-", "+">>

\* A 2x2 grid rendered with cell <<0, 0>> linked to its east neighbour and to
\* no south neighbour, cell <<0, 1>> linked to its south neighbour, and one
\* cell marked with a number.
C18_Witness ==
    /\ ret.call = "__str__"
    /\ err = "none"
    /\ num_rows = 2
    /\ num_columns = 2
    /\ is_linked(links, <<0, 0>>, <<0, 1>>)
    /\ ~is_linked(links, <<0, 0>>, <<1, 0>>)
    /\ is_linked(links, <<0, 1>>, <<1, 1>>)
    /\ mk.marks # <<>>
    /\ ret.value[2] = <<"|", " ", "0", " ", " ", " ", " ", " ", "|">>

\* C19 (as claimed): rendering a constructed grid never fails, and on a grid
\* set_markup was never called on every label is three spaces.
C19_RenderWithoutMarkup ==
    ret.call = "__str__" =>
        /\ err = "none"
        /\ markup = "unset" =>
              \A c \in Cells :
                  SubSeq(ret.value[2 * c[1] + 2], 4 * c[2] + 2, 4 * c[2] + 4)
                      = <<" ", " ", " ">>

\* A step of sidewinder that closes a run: a cell of row i is linked to its
\* north neighbour.
SidewinderCloses ==
    /\ alg = "sidewinder"
    /\ pc = "sw_row"
    /\ \E c \in Cells : c[1] = i /\ north(c) \in links'[c] \ links[c]

\* The cells of the run that column j of row i is in: those linked west to
\* east up to column j.
SidewinderRunCells ==
    {<<i, c>> : c \in {c \in 0..j : \A d \in c..(j - 1) :
                           is_linked(links, <<i, d>>, <<i, d + 1>>)}}

\* C20 (as claimed): when sidewinder closes a run below the top row, the list
\* the north-linking cell is drawn from holds exactly the cells of the run,
\* each of them once, and the run list is empty after the close.
C20_SidewinderRunList ==
    [][SidewinderCloses =>
          LET run == sidewinder_run(FALSE)
          IN /\ Range(run) = SidewinderRunCells
             /\ \A k \in DOMAIN run : \A n \in DOMAIN run : run[k] = run[n] => k = n
             /\ tmplist' = <<>>]_vars

\* The path of wilson's walk is simple, runs over geographic neighbours, ends
\* with the walk head and lies in the unvisited list.
WilsonPathSimple ==
    /\ tmpgrids # <<>>
    /\ \A k \in DOMAIN tmpgrids : \A n \in DOMAIN tmpgrids :
          tmpgrids[k] = tmpgrids[n] => k = n
    /\ \A k \in 1..(Len(tmpgrids) - 1) :
          tmpgrids[k + 1] \in Range(neighbors(tmpgrids[k]))
    /\ first_cell = tmpgrids[Len(tmpgrids)]
    /\ Range(tmpgrids) \subseteq Range(cell_unused)

\* C21: at every step of wilson's walk the path is simple, consecutive path
\* cells are geographic neighbours, the walk head is the last cell of the path
\* and every path cell is in the unvisited list; a step that comes back to a
\* cell of the path cuts the path back to that cell, and a step makes a link
\* only when the walk has reached a visited cell.
C21_WilsonPath ==
    /\ []((alg = "wilson" /\ pc = "wi_loop") => WilsonPathSimple)
    /\ [][(alg = "wilson" /\ pc = "wi_loop") =>
            /\ links' # links =>
                  \E v \in Range(neighbors(first_cell)) \ Range(cell_unused) :
                      v \in links'[first_cell] \ links[first_cell]
            /\ (links' = links /\ Len(tmpgrids') <= Len(tmpgrids)) =>
                  /\ tmpgrids' = SubSeq(tmpgrids, 1, Len(tmpgrids'))
                  /\ first_cell' = tmpgrids'[Len(tmpgrids')]
                  /\ first_cell' \in Range(neighbors(first_cell))
            /\ (links' = links /\ Len(tmpgrids') > Len(tmpgrids)) =>
                  /\ tmpgrids' = Append(tmpgrids, first_cell')
                  /\ first_cell' \in Range(neighbors(first_cell))]_vars

\* A 3x3 walk of wilson, after a first path was linked into the maze, whose
\* path of four cells has come back next to its first cell, which the next
\* step may revisit.
C21_Witness ==
    /\ alg = "wilson"
    /\ pc = "wi_loop"
    /\ num_rows = 3
    /\ num_columns = 3
    /\ Cardinality(Edges(links)) >= 1
    /\ Len(tmpgrids) = 4
    /\ tmpgrids[1] \in Range(neighbors(first_cell))

\* C22 (as claimed): at every step of aldous_broder on a fresh grid
\* is_visited() is true for exactly the cells the walk has reached, so for
\* every cell once the algorithm has returned, and cell_visited() can be
\* called on every cell afterwards.
C22_AldousBroderVisitedFlag ==
    alg = "aldous_broder" =>
        /\ (pc \in {"ab_loop", "returned"} /\ ret.call # "cell_visited") =>
              {c \in Cells : is_visited(c)} = Cells \ Range(cell_notvisited)
        /\ ret.call = "cell_visited" => err = "none"

\* C23 (as claimed): for every markup that reads a number for every cell (a
\* markup with no mark and a markup whose largest value is 0 included)
\* intensity_colorize returns, and so does colorize_dijkstra for a start cell
\* of the grid, with a triplet of integers in 0..255 set for every cell.
C23_ColorizeCompletes ==
    /\ (ret.call = "intensity_colorize"
            /\ \A c \in Cells : getitem(mk, c) # Blank) =>
          /\ err = "none"
          /\ \A c \in Cells : \A k \in 1..3 : getitem(ret.value, c)[k] \in 0..255
    /\ (ret.call = "colorize_dijkstra" /\ err # "IndexError") =>
          /\ err = "none"
          /\ \A c \in Cells : \A k \in 1..3 : getitem(ret.value, c)[k] \in 0..255
====
